---- MODULE Spec2Model ----
(***************************************************************************)
(* Change detection and versioned packaging of rep_manager/main.py:        *)
(* the applications / file_hashes store, the applications directory, the   *)
(* output and plans directories, and one run of main() stepping through    *)
(* process_application for every discovered directory.                     *)
(***************************************************************************)
EXTENDS Integers, Sequences, FiniteSets, TLC

(* ------------------------------ bounds -------------------------------- *)

\* filesystem operations the environment performs in one behaviour
MaxEdits == 3
\* seconds the CURRENT_TIMESTAMP clock can advance
MaxTime == 1
\* the largest version passed to update_app_status or generate_deployment_plan
MaxVersion == 3
\* times generate_deployment_plan is called for one (app_name, version)
MaxPlanWrites == 2
\* runs of each of sync_apps_to_db.py and analyze_discrepancies.py
MaxToolRuns == 2
\* notes one application gets from rep_manager.py note
MaxNotes == 2

(* ----------------------------- universe ------------------------------- *)

\* entry names that can appear in apps_directory
Names == {"bar", "foo"}
\* files below an application's root (the second one is nested)
FilePaths == {"a.txt", "sub/b.txt"}
\* directories below an application's root
DirPaths == {"sub"}
\* file contents
Contents == {"hello", "world"}

DirMark == "<dir>"
EmptyMap == [p \in {} |-> ""]

\* the directory a path lives in ("" is the application's root)
Parent(p) == IF p = "sub/b.txt" THEN "sub" ELSE ""

\* an entry of apps_directory: nothing, a plain file, or a directory tree
NoEntry == [kind |-> "none"]
PlainFile == [kind |-> "file"]
DirEntry(t) == [kind |-> "dir", tree |-> t]
EmptyDir == DirEntry(EmptyMap)

\* the order sorted() puts entry names in
NameRank(n) == IF n = "bar" THEN 1 ELSE 2

RECURSIVE SortedNames(_)
SortedNames(S) ==
  IF S = {} THEN << >>
  ELSE LET m == CHOOSE x \in S : \A y \in S : NameRank(x) <= NameRank(y)
       IN <<m>> \o SortedNames(S \ {m})

\* the order os.walk (top-down) meets the files in
WalkRank(p) == IF p = "a.txt" THEN 1 ELSE 2

(* ------------------------- state of the program ----------------------- *)

VARIABLES
  applications,    \* rows of table applications
  file_hashes,     \* committed rows of table file_hashes
  txn_hashes,      \* file_hashes as the open connection sees it (uncommitted)
  fs,              \* apps_directory: entry name -> entry
  archives,        \* output_directory: archive name -> archive content
  plans,           \* deployment_plans_directory: plan name -> content
  temp_dir,        \* the TemporaryDirectory of package_application
  now,             \* CURRENT_TIMESTAMP
  edits,           \* filesystem operations performed so far
  pc,              \* position of the run of main()
  queue,           \* entries main() still has to visit, in sorted order
  last_run,        \* how the last run of main() ended
  app_name,        \* process_application: app_name
  app_id,          \* process_application: app_id
  version,         \* process_application: version
  status,          \* process_application: status
  has_changed,     \* process_application: has_changed
  current_hashes,  \* analyze_application: current_hashes
  stored_hashes,   \* analyze_application: stored_hashes
  to_insert,       \* update_file_hashes: items the loop has not reached yet
  \* history variables: they record what happened and steer nothing
  pre,             \* the store and the output directories when the pass began
  walked,          \* the entry the os.walk of the pass found
  status_trace,    \* the statuses the row has had during the pass
  last,            \* per name: what the last pass left, if it returned
  base,            \* per name: the version of the first packaging (0: none yet)
  nchanged,        \* per name: analyses since then that returned True
  analyzed_fp,     \* per name: the mapping of the last finished analysis
  crash_pc,        \* where the process was when it was last killed
  produced,        \* per name: the archive written last (history)
  arch_writes,     \* archive name -> times it has been written (history)
  failed_op,       \* the operation that raised in this run (history)
  other,           \* a second process running process_application
  call,            \* the update_app_status call made last
  plan_writes,     \* plan name -> times it has been written (history)
  report,          \* what analyze_app_db_discrepancies reported last
  sync,            \* what sync_apps_with_db did last
  metadata,        \* rep_manager.py: rows of table applications of metadata.db
  noted            \* rep_manager.py: the note command run last

storeVars == <<applications, file_hashes, txn_hashes>>
diskVars == <<fs, archives, plans, temp_dir>>
envVars == <<now, edits>>
runVars == <<pc, queue, last_run>>
localVars == <<app_name, app_id, version, status, has_changed,
               current_hashes, stored_hashes, to_insert>>
passHist == <<pre, walked, status_trace>>
histVars == <<passHist, last, base, nchanged, analyzed_fp, crash_pc>>
auxVars == <<produced, arch_writes, failed_op, other, call>>
toolVars == <<plan_writes, report, sync, metadata, noted>>
vars == <<storeVars, diskVars, envVars, runVars, localVars, histVars, auxVars,
          toolVars>>

(* ------------------------------ helpers ------------------------------- *)

\* NULL of column package_path
Null == << >>

\* faulty variant: the version is left out of the archive name
ArchivePath_fixed(name, v) == <<name, "_v", 1, ".tar.gz">>

\* f"{app_name}_v{version}.tar.gz" below output_dir
ArchivePath(name, v) == <<name, "_v", v, ".tar.gz">>

\* f"{app_name}_v{version}_deployment_plan.md" below plans_dir
PlanPath(name, v) == <<name, "_v", v, "_deployment_plan.md">>

\* the templated plan text
PlanContent(name, v) == <<"# Deployment Plan: ", name, " v", v, "checklist">>

\* hashlib.sha256 of the file's bytes, as a hex digest
calculate_file_hash(c) ==
  IF c = "hello" THEN "2cf24dba5fb0a30e" ELSE "486ea46224d1bb4f"

\* faulty variant: only the files directly below the root are hashed
Walk_shallow(e) ==
  IF e.kind # "dir" THEN EmptyMap
  ELSE [p \in {q \in DOMAIN e.tree : e.tree[q] # DirMark /\ Parent(q) = ""}
          |-> calculate_file_hash(e.tree[p])]

\* the os.walk loop of analyze_application: relative path -> digest
Walk(e) ==
  IF e.kind # "dir" THEN EmptyMap
  ELSE [p \in {q \in DOMAIN e.tree : e.tree[q] # DirMark}
          |-> calculate_file_hash(e.tree[p])]

\* the rows of file_hashes that belong to an application
RowsOf(rows, id) == {r \in rows : r.app_id = id}

\* get_file_hashes: the dict built from the rows of an application
get_file_hashes(rows, id) ==
  [p \in {r.file_path : r \in RowsOf(rows, id)}
     |-> (CHOOSE r \in RowsOf(rows, id) : r.file_path = p).file_hash]

\* faulty variant: only the current paths are looked up in the stored mapping
DictDiffers_subset(d1, d2) ==
  ~(\A k \in DOMAIN d1 : k \in DOMAIN d2 /\ d1[k] = d2[k])

\* dict inequality, current_hashes != stored_hashes
DictDiffers(d1, d2) ==
  ~(/\ Cardinality(DOMAIN d1) = Cardinality(DOMAIN d2)
    /\ \A k \in DOMAIN d1 : k \in DOMAIN d2 /\ d1[k] = d2[k])

\* the row of an application name, and whether there is one
HasRow(name) == \E r \in applications : r.app_name = name
RowOf(name) == CHOOSE r \in applications : r.app_name = name
RowById(id) == CHOOSE r \in applications : r.id = id

\* AUTOINCREMENT
NextId ==
  IF applications = {} THEN 1
  ELSE 1 + (CHOOSE m \in {r.id : r \in applications} :
              \A r \in applications : r.id <= m)

(* --------------------- the environment: the filesystem ---------------- *)

\* a tree without the directory d and everything below it
WithoutDir(t, d) == [p \in {q \in DOMAIN t : q # d /\ Parent(q) # d} |-> t[p]]

\* the trees one filesystem operation makes of the tree t
TreeSteps(t) ==
  {[p \in DOMAIN t \cup {f} |-> IF p = f THEN c ELSE t[p]] :
     f \in {g \in FilePaths : Parent(g) = "" \/ Parent(g) \in DOMAIN t},
     c \in Contents}
  \cup {[p \in DOMAIN t \ {f} |-> t[p]] : f \in DOMAIN t \cap FilePaths}
  \cup {[p \in DOMAIN t \cup {d} |-> IF p = d THEN DirMark ELSE t[p]] :
          d \in DirPaths \ DOMAIN t}
  \cup {WithoutDir(t, d) : d \in DirPaths \cap DOMAIN t}

\* the entries one filesystem operation (mkdir, write, unlink, rmtree) makes of e
EntrySteps(e) ==
  IF e.kind = "none" THEN {EmptyDir, PlainFile}
  ELSE IF e.kind = "file" THEN {NoEntry}
  ELSE {NoEntry} \cup {DirEntry(t) : t \in TreeSteps(e.tree) \ {e.tree}}

\* somebody changes the applications directory, at any moment
FsEdit ==
  /\ edits < MaxEdits
  /\ \E n \in Names : \E e \in EntrySteps(fs[n]) :
       fs' = [fs EXCEPT ![n] = e]
  /\ edits' = edits + 1
  /\ UNCHANGED <<storeVars, archives, plans, temp_dir, now, runVars, localVars,
                 histVars>>
  /\ UNCHANGED auxVars
  /\ UNCHANGED toolVars

\* the clock of CURRENT_TIMESTAMP advances
Tick ==
  /\ now < MaxTime
  /\ now' = now + 1
  /\ UNCHANGED <<storeVars, diskVars, edits, runVars, localVars, histVars>>
  /\ UNCHANGED auxVars
  /\ UNCHANGED toolVars

(* ------------------------------- main() ------------------------------- *)

NoTemp == [kind |-> "none"]

ClearLocals ==
  /\ app_name' = ""
  /\ app_id' = 0
  /\ version' = 0
  /\ status' = ""
  /\ has_changed' = FALSE
  /\ current_hashes' = EmptyMap
  /\ stored_hashes' = EmptyMap
  /\ to_insert' = {}

NoPre == [applications |-> {}, file_hashes |-> {}, archives |-> EmptyMap,
          plans |-> EmptyMap]
NoLast == [kind |-> "none"]
NoAnalysis == [done |-> FALSE, fp |-> EmptyMap]
\* the second process is not running; no update_app_status call was made
NoOther == [pc |-> "idle", app_name |-> "", app_id |-> 0, version |-> 0,
            status |-> "", has_changed |-> FALSE, failed |-> ""]
NoCall == [seq |-> 0, id |-> 0, status |-> "", version |-> 0]
\* no report was made, no sync and no note command was run
NoReport == [seq |-> 0, missing |-> {}, after |-> 0]
NoSync == [seq |-> 0, added |-> {}, dirs |-> {}]
NoNote == [seq |-> 0, id |-> "", text |-> ""]

ClearPassHist ==
  /\ pre' = NoPre
  /\ walked' = NoEntry
  /\ status_trace' = << >>

Init ==
  /\ applications = {}
  /\ file_hashes = {}
  /\ txn_hashes = {}
  /\ fs = [n \in Names |-> NoEntry]
  /\ archives = EmptyMap
  /\ plans = EmptyMap
  /\ temp_dir = NoTemp
  /\ now = 0
  /\ edits = 0
  /\ pc = "idle"
  /\ queue = << >>
  /\ last_run = "none"
  /\ app_name = ""
  /\ app_id = 0
  /\ version = 0
  /\ status = ""
  /\ has_changed = FALSE
  /\ current_hashes = EmptyMap
  /\ stored_hashes = EmptyMap
  /\ to_insert = {}
  /\ pre = NoPre
  /\ walked = NoEntry
  /\ status_trace = << >>
  /\ last = [n \in Names |-> NoLast]
  /\ base = [n \in Names |-> 0]
  /\ nchanged = [n \in Names |-> 0]
  /\ analyzed_fp = [n \in Names |-> NoAnalysis]
  /\ crash_pc = ""
  /\ produced = [n \in Names |-> Null]
  /\ arch_writes = EmptyMap
  /\ failed_op = ""
  /\ other = NoOther
  /\ call = NoCall
  /\ plan_writes = EmptyMap
  /\ report = NoReport
  /\ sync = NoSync
  /\ metadata = EmptyMap
  /\ noted = NoNote

\* faulty variant: a run begins by deleting the rows whose directory is gone
MainStart_prune ==
  /\ pc = "idle"
  /\ applications' = {r \in applications : fs[r.app_name].kind # "none"}
  /\ queue' = SortedNames({n \in Names : fs[n].kind # "none"})
  /\ pc' = "loop"
  /\ last_run' = "running"
  /\ crash_pc' = ""
  /\ failed_op' = ""
  /\ UNCHANGED <<file_hashes, txn_hashes, diskVars, envVars, localVars,
                 passHist, last, base, nchanged, analyzed_fp,
                 produced, arch_writes, other, call>>
  /\ UNCHANGED toolVars

\* main() up to the for statement: sorted(apps_dir.iterdir()); init_db finds its
\* tables after the first run, and apps_directory itself is there
MainStart ==
  /\ pc = "idle"
  /\ queue' = SortedNames({n \in Names : fs[n].kind # "none"})
  /\ pc' = "loop"
  /\ last_run' = "running"
  /\ crash_pc' = ""
  /\ failed_op' = ""
  /\ UNCHANGED <<storeVars, diskVars, envVars, localVars,
                 passHist, last, base, nchanged, analyzed_fp,
                 produced, arch_writes, other, call>>
  /\ UNCHANGED toolVars

\* the for loop is exhausted: main() returns
MainFinish ==
  /\ pc = "loop"
  /\ queue = << >>
  /\ pc' = "idle"
  /\ last_run' = "completed"
  /\ UNCHANGED <<storeVars, diskVars, envVars, queue, localVars, histVars>>
  /\ UNCHANGED auxVars
  /\ UNCHANGED toolVars

\* faulty variant: an entry that is not a directory is processed like one
MainSkip_enter ==
  /\ pc = "loop"
  /\ queue # << >>
  /\ fs[Head(queue)].kind # "dir"
  /\ queue' = Tail(queue)
  /\ app_name' = Head(queue)
  /\ pc' = "get_or_create"
  /\ pre' = [applications |-> applications, file_hashes |-> file_hashes,
             archives |-> archives, plans |-> plans]
  /\ UNCHANGED <<storeVars, diskVars, envVars, last_run, app_id, version,
                 status, has_changed, current_hashes, stored_hashes, to_insert,
                 walked, status_trace, last, base, nchanged, analyzed_fp, crash_pc>>
  /\ UNCHANGED auxVars
  /\ UNCHANGED toolVars

\* an entry that is not a directory (any more) is passed over
MainSkip ==
  /\ pc = "loop"
  /\ queue # << >>
  /\ fs[Head(queue)].kind # "dir"
  /\ queue' = Tail(queue)
  /\ UNCHANGED <<storeVars, diskVars, envVars, pc, last_run, localVars, histVars>>
  /\ UNCHANGED auxVars
  /\ UNCHANGED toolVars

\* app_dir.is_dir(): process_application(app_dir.name, ...) is called
MainEnter ==
  /\ pc = "loop"
  /\ queue # << >>
  /\ fs[Head(queue)].kind = "dir"
  /\ queue' = Tail(queue)
  /\ app_name' = Head(queue)
  /\ pc' = "get_or_create"
  /\ pre' = [applications |-> applications, file_hashes |-> file_hashes,
             archives |-> archives, plans |-> plans]
  /\ UNCHANGED <<storeVars, diskVars, envVars, last_run, app_id, version,
                 status, has_changed, current_hashes, stored_hashes, to_insert,
                 walked, status_trace, last, base, nchanged, analyzed_fp, crash_pc>>
  /\ UNCHANGED auxVars
  /\ UNCHANGED toolVars

(* ------------------------ process_application ------------------------- *)

\* INSERT INTO applications (app_name) VALUES (?), with the column defaults
NewRow(name) ==
  [id |-> NextId, app_name |-> name, version |-> 1, status |-> "new",
   last_updated |-> now, package_path |-> Null]

\* get_or_create_app
GetOrCreateApp ==
  /\ pc = "get_or_create"
  /\ IF HasRow(app_name)
     THEN /\ app_id' = RowOf(app_name).id
          /\ version' = RowOf(app_name).version
          /\ status' = RowOf(app_name).status
          /\ UNCHANGED applications
     ELSE /\ applications' = applications \cup {NewRow(app_name)}
          /\ app_id' = NextId
          /\ version' = 1
          /\ status' = "new"
  /\ pc' = "analyze"
  /\ status_trace' = <<status'>>
  /\ UNCHANGED <<file_hashes, txn_hashes, diskVars, envVars, queue, last_run,
                 app_name, has_changed, current_hashes, stored_hashes, to_insert,
                 pre, walked, last, base, nchanged, analyzed_fp, crash_pc>>
  /\ UNCHANGED auxVars
  /\ UNCHANGED toolVars

\* faulty variant: the store is not updated before packaging
AfterAnalysis_skip(r) == IF status = "new" \/ r THEN "copytree" ELSE "return"

\* faulty variant: every pass packages
AfterAnalysis_always(r) == "update_status"

\* where process_application goes once analyze_application has returned r
AfterAnalysis(r) == IF status = "new" \/ r THEN "update_status" ELSE "return"

\* analyze_application up to the comparison; it returns False when nothing differs
AnalyzeApplication ==
  /\ pc = "analyze"
  /\ current_hashes' = Walk(fs[app_name])
  /\ stored_hashes' = get_file_hashes(file_hashes, app_id)
  /\ IF DictDiffers(current_hashes', stored_hashes')
     THEN /\ pc' = "ufh_delete"
          /\ UNCHANGED <<has_changed, analyzed_fp>>
     ELSE /\ pc' = AfterAnalysis(FALSE)
          /\ has_changed' = FALSE
          /\ analyzed_fp' = [analyzed_fp EXCEPT ![app_name] =
                               [done |-> TRUE, fp |-> current_hashes']]
  /\ walked' = fs[app_name]
  /\ UNCHANGED <<storeVars, diskVars, envVars, queue, last_run,
                 app_name, app_id, version, status, to_insert,
                 pre, status_trace, last, base, nchanged, crash_pc>>
  /\ UNCHANGED auxVars
  /\ UNCHANGED toolVars

\* faulty variant: the old rows are not deleted
UfhDelete_keep ==
  /\ pc = "ufh_delete"
  /\ to_insert' = DOMAIN current_hashes
  /\ pc' = "ufh_insert"
  /\ UNCHANGED <<storeVars, diskVars, envVars, queue, last_run,
                 app_name, app_id, version, status, has_changed,
                 current_hashes, stored_hashes, histVars>>
  /\ UNCHANGED auxVars
  /\ UNCHANGED toolVars

\* faulty variant: the connection commits every statement at once
UfhDelete_autocommit ==
  /\ pc = "ufh_delete"
  /\ txn_hashes' = txn_hashes \ RowsOf(txn_hashes, app_id)
  /\ file_hashes' = txn_hashes'
  /\ to_insert' = DOMAIN current_hashes
  /\ pc' = "ufh_insert"
  /\ UNCHANGED <<applications, diskVars, envVars, queue, last_run,
                 app_name, app_id, version, status, has_changed,
                 current_hashes, stored_hashes, histVars>>
  /\ UNCHANGED auxVars
  /\ UNCHANGED toolVars

\* update_file_hashes: DELETE FROM file_hashes WHERE app_id = ?
UfhDelete ==
  /\ pc = "ufh_delete"
  /\ txn_hashes' = txn_hashes \ RowsOf(txn_hashes, app_id)
  /\ to_insert' = DOMAIN current_hashes
  /\ pc' = "ufh_insert"
  /\ UNCHANGED <<applications, file_hashes, diskVars, envVars, queue, last_run,
                 app_name, app_id, version, status, has_changed,
                 current_hashes, stored_hashes, histVars>>
  /\ UNCHANGED auxVars
  /\ UNCHANGED toolVars

\* the item the for loop of update_file_hashes reaches next
NextItem == CHOOSE p \in to_insert : \A q \in to_insert : WalkRank(p) <= WalkRank(q)

\* update_file_hashes: one INSERT INTO file_hashes of the loop
UfhInsert ==
  /\ pc = "ufh_insert"
  /\ to_insert # {}
  /\ txn_hashes' = txn_hashes \cup
       {[app_id |-> app_id, file_path |-> NextItem,
         file_hash |-> current_hashes[NextItem]]}
  /\ to_insert' = to_insert \ {NextItem}
  /\ UNCHANGED <<applications, file_hashes, diskVars, envVars, runVars,
                 app_name, app_id, version, status, has_changed,
                 current_hashes, stored_hashes, histVars>>
  /\ UNCHANGED auxVars
  /\ UNCHANGED toolVars

\* faulty variant: conn.commit() is missing, closing the connection rolls back
UfhCommit_forgotten ==
  /\ pc = "ufh_insert"
  /\ to_insert = {}
  /\ txn_hashes' = file_hashes
  /\ has_changed' = TRUE
  /\ pc' = AfterAnalysis(TRUE)
  /\ analyzed_fp' = [analyzed_fp EXCEPT ![app_name] =
                       [done |-> TRUE, fp |-> current_hashes]]
  /\ nchanged' = [nchanged EXCEPT ![app_name] =
                    IF base[app_name] # 0 THEN @ + 1 ELSE @]
  /\ UNCHANGED <<applications, file_hashes, diskVars, envVars, queue, last_run,
                 app_name, app_id, version, status,
                 current_hashes, stored_hashes, to_insert,
                 passHist, last, base, crash_pc>>
  /\ UNCHANGED auxVars
  /\ UNCHANGED toolVars

\* update_file_hashes: conn.commit(); analyze_application returns True
UfhCommit ==
  /\ pc = "ufh_insert"
  /\ to_insert = {}
  /\ file_hashes' = txn_hashes
  /\ has_changed' = TRUE
  /\ pc' = AfterAnalysis(TRUE)
  /\ analyzed_fp' = [analyzed_fp EXCEPT ![app_name] =
                       [done |-> TRUE, fp |-> current_hashes]]
  /\ nchanged' = [nchanged EXCEPT ![app_name] =
                    IF base[app_name] # 0 THEN @ + 1 ELSE @]
  /\ UNCHANGED <<applications, txn_hashes, diskVars, envVars, queue, last_run,
                 app_name, app_id, version, status,
                 current_hashes, stored_hashes, to_insert,
                 passHist, last, base, crash_pc>>
  /\ UNCHANGED auxVars
  /\ UNCHANGED toolVars

\* faulty variant: the version column is written whether or not one is given
update_app_status_always(id, st, v) ==
  {IF r.id # id THEN r
   ELSE [r EXCEPT !.status = st, !.version = v, !.last_updated = now] :
     r \in applications}

\* update_app_status(app_id, status, db_path, version): None is 0, both falsy
update_app_status(id, st, v) ==
  {IF r.id # id THEN r
   ELSE IF v # 0
   THEN [r EXCEPT !.status = st, !.version = v, !.last_updated = now]
   ELSE [r EXCEPT !.status = st, !.last_updated = now] : r \in applications}

\* faulty variant: the version is never incremented
PackagedVersion_same == version

\* faulty variant: the version is incremented twice
PackagedVersion_skip == IF status = "new" THEN version ELSE version + 2

\* faulty variant: the version is incremented for a new application too
PackagedVersion_always == version + 1

\* the version process_application packages: version, or version += 1
PackagedVersion == IF status = "new" THEN version ELSE version + 1

\* faulty variant: the plan is emitted right after the status update
UpdateAppStatus_plan ==
  /\ pc = "update_status"
  /\ version' = PackagedVersion
  /\ applications' = update_app_status(app_id, "analyzed", version')
  /\ pc' = "plan"
  /\ status_trace' = Append(status_trace, "analyzed")
  /\ UNCHANGED <<file_hashes, txn_hashes, diskVars, envVars, queue, last_run,
                 app_name, app_id, status, has_changed,
                 current_hashes, stored_hashes, to_insert,
                 pre, walked, last, base, nchanged, analyzed_fp, crash_pc>>
  /\ UNCHANGED auxVars
  /\ UNCHANGED toolVars

\* process_application: update_app_status(app_id, 'analyzed', db_path, version=version)
UpdateAppStatus ==
  /\ pc = "update_status"
  /\ version' = PackagedVersion
  /\ applications' = update_app_status(app_id, "analyzed", version')
  /\ pc' = "copytree"
  /\ status_trace' = Append(status_trace, "analyzed")
  /\ UNCHANGED <<file_hashes, txn_hashes, diskVars, envVars, queue, last_run,
                 app_name, app_id, status, has_changed,
                 current_hashes, stored_hashes, to_insert,
                 pre, walked, last, base, nchanged, analyzed_fp, crash_pc>>
  /\ UNCHANGED auxVars
  /\ UNCHANGED toolVars

\* package_application: shutil.copytree(source_dir, temp_dir / app_name)
PkgCopytree ==
  /\ pc = "copytree"
  /\ fs[app_name].kind = "dir"
  /\ temp_dir' = [kind |-> "dir", name |-> app_name, tree |-> fs[app_name].tree]
  /\ pc' = "tar"
  /\ UNCHANGED <<storeVars, fs, archives, plans, envVars, queue, last_run, localVars,
                 histVars>>
  /\ UNCHANGED auxVars
  /\ UNCHANGED toolVars

\* copytree raises on a source that is no directory; nothing catches it
PkgCopytreeRaises ==
  /\ pc = "copytree"
  /\ fs[app_name].kind # "dir"
  /\ pc' = "idle"
  /\ queue' = << >>
  /\ last_run' = "aborted"
  /\ ClearLocals
  /\ ClearPassHist
  /\ last' = [last EXCEPT ![app_name] = NoLast]
  /\ failed_op' = "copytree"
  /\ UNCHANGED <<storeVars, diskVars, envVars, base, nchanged, analyzed_fp, crash_pc,
                 produced, arch_writes, other, call>>
  /\ UNCHANGED toolVars

\* one more write of the file k
Written(w, k) == (k :> (IF k \in DOMAIN w THEN w[k] + 1 ELSE 1)) @@ w

\* what tar.add(temp_dir / app_name, arcname=app_name) puts in the archive
\* (recursive): a member for the directory itself, one for every path below it
TarOf(staged, arcname) ==
  [ok |-> TRUE,
   members |->
     [m \in {[top |-> arcname, path |-> ""]}
               \cup {[top |-> arcname, path |-> p] : p \in DOMAIN staged.tree} |->
        IF m.path = "" THEN DirMark ELSE staged.tree[m.path]]]

\* an archive whose writing stopped part-way: not a readable tar.gz
Truncated == [ok |-> FALSE, members |-> EmptyMap]

\* faulty variant: the staging directory outlives the with block
PkgTar_leak ==
  /\ pc = "tar"
  /\ archives' = (ArchivePath(app_name, version) :> TarOf(temp_dir, app_name))
                   @@ archives
  /\ pc' = "pkg_update"
  /\ produced' = [produced EXCEPT ![app_name] = ArchivePath(app_name, version)]
  /\ arch_writes' = Written(arch_writes, ArchivePath(app_name, version))
  /\ UNCHANGED <<storeVars, fs, plans, temp_dir, envVars, queue, last_run, localVars,
                 histVars, failed_op, other, call>>
  /\ UNCHANGED toolVars

\* faulty variant: the live source tree is archived, not the staged copy
PkgTar_live ==
  /\ pc = "tar"
  /\ archives' = (ArchivePath(app_name, version) :>
                    TarOf(IF fs[app_name].kind = "dir" THEN fs[app_name] ELSE EmptyDir,
                          app_name))
                   @@ archives
  /\ temp_dir' = NoTemp
  /\ pc' = "pkg_update"
  /\ produced' = [produced EXCEPT ![app_name] = ArchivePath(app_name, version)]
  /\ arch_writes' = Written(arch_writes, ArchivePath(app_name, version))
  /\ UNCHANGED <<storeVars, fs, plans, envVars, queue, last_run, localVars, histVars,
                 failed_op, other, call>>
  /\ UNCHANGED toolVars

\* package_application: the archive is written, the with block is left
PkgTar ==
  /\ pc = "tar"
  /\ archives' = (ArchivePath(app_name, version) :> TarOf(temp_dir, app_name))
                   @@ archives
  /\ temp_dir' = NoTemp
  /\ pc' = "pkg_update"
  /\ produced' = [produced EXCEPT ![app_name] = ArchivePath(app_name, version)]
  /\ arch_writes' = Written(arch_writes, ArchivePath(app_name, version))
  /\ UNCHANGED <<storeVars, fs, plans, envVars, queue, last_run, localVars, histVars,
                 failed_op, other, call>>
  /\ UNCHANGED toolVars

\* package_application: UPDATE applications SET package_path = ?, status = 'packaged'
PkgUpdate ==
  /\ pc = "pkg_update"
  /\ applications' =
       {IF r.id # app_id THEN r
        ELSE [r EXCEPT !.package_path = ArchivePath(app_name, version),
                       !.status = "packaged"] : r \in applications}
  /\ pc' = "plan"
  /\ status_trace' = Append(status_trace, "packaged")
  /\ base' = [base EXCEPT ![app_name] = IF @ = 0 THEN version ELSE @]
  /\ UNCHANGED <<file_hashes, txn_hashes, diskVars, envVars, queue, last_run, localVars,
                 pre, walked, last, nchanged, analyzed_fp, crash_pc>>
  /\ UNCHANGED auxVars
  /\ UNCHANGED toolVars

\* faulty variant: the plan file is opened for appending
WritePlan_append(pl, name, v) ==
  (PlanPath(name, v) :>
     (IF PlanPath(name, v) \in DOMAIN pl THEN pl[PlanPath(name, v)] ELSE << >>)
       \o PlanContent(name, v)) @@ pl

\* with open(plan_path, 'w') as f: f.write(content.strip())
WritePlan(pl, name, v) == (PlanPath(name, v) :> PlanContent(name, v)) @@ pl

\* generate_deployment_plan: open(plan_path, 'w') and write
GenerateDeploymentPlan ==
  /\ pc = "plan"
  /\ plans' = WritePlan(plans, app_name, version)
  /\ plan_writes' = Written(plan_writes, PlanPath(app_name, version))
  /\ pc' = "return"
  /\ UNCHANGED <<storeVars, fs, archives, temp_dir, envVars, queue, last_run, localVars,
                 histVars>>
  /\ UNCHANGED <<auxVars, report, sync, metadata, noted>>

\* process_application returns to the for loop of main()
Return ==
  /\ pc = "return"
  /\ pc' = "loop"
  /\ ClearLocals
  /\ ClearPassHist
  /\ last' = [last EXCEPT ![app_name] =
                [kind |-> "done", entry |-> walked,
                 version |-> RowById(app_id).version,
                 status |-> RowById(app_id).status]]
  /\ UNCHANGED <<storeVars, diskVars, envVars, queue, last_run,
                 base, nchanged, analyzed_fp, crash_pc>>
  /\ UNCHANGED auxVars
  /\ UNCHANGED toolVars

Pass ==
  \/ GetOrCreateApp
  \/ AnalyzeApplication
  \/ UfhDelete
  \/ UfhInsert
  \/ UfhCommit
  \/ UpdateAppStatus
  \/ PkgCopytree
  \/ PkgCopytreeRaises
  \/ PkgTar
  \/ PkgUpdate
  \/ GenerateDeploymentPlan
  \/ Return

Next ==
  \/ FsEdit
  \/ Tick
  \/ MainStart
  \/ MainFinish
  \/ MainSkip
  \/ MainEnter
  \/ Pass

Spec == Init /\ [][Next]_vars

(* ------------------------- the process is killed ---------------------- *)

\* the positions inside update_file_hashes, between connect and commit
InUpdateFileHashes == {"ufh_delete", "ufh_insert"}

\* the process dies inside update_file_hashes: the open transaction is rolled back
Crash ==
  /\ pc \in InUpdateFileHashes
  /\ crash_pc' = pc
  /\ pc' = "idle"
  /\ queue' = << >>
  /\ last_run' = "crashed"
  /\ txn_hashes' = file_hashes
  /\ ClearLocals
  /\ ClearPassHist
  /\ last' = [n \in Names |-> IF n = app_name THEN NoLast ELSE last[n]]
  /\ UNCHANGED <<applications, file_hashes, diskVars, envVars,
                 base, nchanged, analyzed_fp>>
  /\ UNCHANGED auxVars
  /\ UNCHANGED toolVars

NextCrash == Next \/ Crash

SpecCrash == Init /\ [][NextCrash]_vars

(* ---------------------- archive creation can fail --------------------- *)

\* faulty variant: a failed packaging still records the archive in the row
PkgTarFails_marks ==
  /\ pc = "tar"
  /\ archives' = (ArchivePath(app_name, version) :> Truncated) @@ archives
  /\ applications' =
       {IF r.id # app_id THEN r
        ELSE [r EXCEPT !.package_path = ArchivePath(app_name, version),
                       !.status = "packaged"] : r \in applications}
  /\ temp_dir' = NoTemp
  /\ failed_op' = "tar"
  /\ pc' = "idle"
  /\ queue' = << >>
  /\ last_run' = "aborted"
  /\ ClearLocals
  /\ ClearPassHist
  /\ last' = [last EXCEPT ![app_name] = NoLast]
  /\ UNCHANGED <<file_hashes, txn_hashes, fs, plans, envVars,
                 base, nchanged, analyzed_fp, crash_pc,
                 produced, arch_writes, other, call>>
  /\ UNCHANGED toolVars

\* tarfile.open or tar.add raises (permission, disk full): the archive is not
\* written or is left part-written, the with block removes the staging
\* directory, and nothing catches the exception
PkgTarFails ==
  /\ pc = "tar"
  /\ \/ archives' = archives
     \/ archives' = (ArchivePath(app_name, version) :> Truncated) @@ archives
  /\ temp_dir' = NoTemp
  /\ failed_op' = "tar"
  /\ pc' = "idle"
  /\ queue' = << >>
  /\ last_run' = "aborted"
  /\ ClearLocals
  /\ ClearPassHist
  /\ last' = [last EXCEPT ![app_name] = NoLast]
  /\ UNCHANGED <<storeVars, fs, plans, envVars,
                 base, nchanged, analyzed_fp, crash_pc,
                 produced, arch_writes, other, call>>
  /\ UNCHANGED toolVars

NextTar == Next \/ PkgTarFails

SpecTar == Init /\ [][NextTar]_vars

(* ---------------------- store operations can fail -------------------- *)

\* the positions at which a pass executes SQL: get_or_create_app,
\* get_file_hashes, update_file_hashes, update_app_status
StoreOps == {"get_or_create", "analyze", "ufh_delete", "ufh_insert", "update_status"}

\* faulty variant: the error is swallowed and the pass goes on to package
StoreFails_swallowed ==
  /\ pc \in StoreOps
  /\ failed_op' = pc
  /\ pc' = "copytree"
  /\ txn_hashes' = file_hashes
  /\ UNCHANGED <<applications, file_hashes, diskVars, envVars, queue, last_run,
                 localVars, histVars, produced, arch_writes, other, call>>
  /\ UNCHANGED toolVars

\* a statement raises sqlite3.Error: the open transaction is rolled back when
\* the connection goes away, and nothing catches the exception
StoreFails ==
  /\ pc \in StoreOps
  /\ failed_op' = pc
  /\ pc' = "idle"
  /\ queue' = << >>
  /\ last_run' = "aborted"
  /\ txn_hashes' = file_hashes
  /\ ClearLocals
  /\ ClearPassHist
  /\ last' = [n \in Names |-> IF n = app_name THEN NoLast ELSE last[n]]
  /\ UNCHANGED <<applications, file_hashes, diskVars, envVars,
                 base, nchanged, analyzed_fp, crash_pc,
                 produced, arch_writes, other, call>>
  /\ UNCHANGED toolVars

NextStore == Next \/ StoreFails

SpecStore == Init /\ [][NextStore]_vars

(* ------------ a second process runs process_application too ----------- *)

\* what the second process leaves unchanged when it touches the store only
OtherFrame == <<diskVars, envVars, runVars, localVars, passHist, last, analyzed_fp,
                crash_pc, produced, arch_writes, failed_op, call>>

\* a second main() reaches process_application(n, ...) for a directory n
OtherStart ==
  /\ other.pc = "idle"
  /\ \E n \in Names :
       /\ fs[n].kind = "dir"
       /\ other' = [NoOther EXCEPT !.pc = "select", !.app_name = n]
  /\ UNCHANGED <<storeVars, base, nchanged, OtherFrame>>
  /\ UNCHANGED toolVars

\* get_or_create_app, the SELECT and fetchone
OtherSelect ==
  /\ other.pc = "select"
  /\ other' = IF HasRow(other.app_name)
              THEN [other EXCEPT !.pc = "analyze",
                                 !.app_id = RowOf(other.app_name).id,
                                 !.version = RowOf(other.app_name).version,
                                 !.status = RowOf(other.app_name).status]
              ELSE [other EXCEPT !.pc = "insert"]
  /\ UNCHANGED <<storeVars, base, nchanged, OtherFrame>>
  /\ UNCHANGED toolVars

\* get_or_create_app, the INSERT and commit: app_name is UNIQUE, so the INSERT
\* raises sqlite3.IntegrityError when the name has got a row since the SELECT
OtherInsert ==
  /\ other.pc = "insert"
  /\ pc # "ufh_insert"
  /\ IF HasRow(other.app_name)
     THEN /\ other' = [NoOther EXCEPT !.failed = "get_or_create"]
          /\ UNCHANGED applications
     ELSE /\ applications' = applications \cup {NewRow(other.app_name)}
          /\ other' = [other EXCEPT !.pc = "analyze", !.app_id = NextId,
                                    !.version = 1, !.status = "new"]
  /\ UNCHANGED <<file_hashes, txn_hashes, base, nchanged, OtherFrame>>
  /\ UNCHANGED toolVars

\* analyze_application as one step: walk, get_file_hashes, compare and, on a
\* difference, update_file_hashes (it waits while another connection writes)
OtherAnalyze ==
  /\ other.pc = "analyze"
  /\ pc # "ufh_insert"
  /\ LET cur == Walk(fs[other.app_name])
         changed == DictDiffers(cur, get_file_hashes(file_hashes, other.app_id))
     IN /\ file_hashes' =
             IF changed
             THEN (file_hashes \ RowsOf(file_hashes, other.app_id))
                    \cup {[app_id |-> other.app_id, file_path |-> q, file_hash |-> cur[q]] :
                            q \in DOMAIN cur}
             ELSE file_hashes
        /\ txn_hashes' = file_hashes'
        /\ nchanged' = [nchanged EXCEPT ![other.app_name] =
                          IF changed /\ base[other.app_name] # 0 THEN @ + 1 ELSE @]
        /\ other' = [other EXCEPT
                       !.has_changed = changed,
                       !.pc = IF other.status = "new" \/ changed
                              THEN "update_status" ELSE "return"]
  /\ UNCHANGED <<applications, base, OtherFrame>>
  /\ UNCHANGED toolVars

\* version += 1 unless the application is new, then update_app_status
OtherUpdateStatus ==
  /\ other.pc = "update_status"
  /\ pc # "ufh_insert"
  /\ LET v == IF other.status = "new" THEN other.version ELSE other.version + 1
     IN /\ applications' = update_app_status(other.app_id, "analyzed", v)
        /\ other' = [other EXCEPT !.version = v, !.pc = "package"]
  /\ UNCHANGED <<file_hashes, txn_hashes, base, nchanged, OtherFrame>>
  /\ UNCHANGED toolVars

\* package_application as one step: stage, archive, UPDATE; copytree raises on a
\* source that is no directory
OtherPackage ==
  /\ other.pc = "package"
  /\ pc # "ufh_insert"
  /\ LET n == other.app_name
         k == ArchivePath(n, other.version)
     IN IF fs[n].kind = "dir"
        THEN /\ archives' = (k :> TarOf(fs[n], n)) @@ archives
             /\ arch_writes' = Written(arch_writes, k)
             /\ produced' = [produced EXCEPT ![n] = k]
             /\ applications' =
                  {IF r.id # other.app_id THEN r
                   ELSE [r EXCEPT !.package_path = k, !.status = "packaged"] :
                     r \in applications}
             /\ base' = [base EXCEPT ![n] = IF @ = 0 THEN other.version ELSE @]
             /\ other' = [other EXCEPT !.pc = "plan"]
        ELSE /\ other' = [NoOther EXCEPT !.failed = "copytree"]
             /\ UNCHANGED <<applications, archives, arch_writes, produced, base>>
  /\ UNCHANGED <<file_hashes, txn_hashes, fs, plans, temp_dir, envVars, runVars,
                 localVars, passHist, last, nchanged, analyzed_fp, crash_pc,
                 failed_op, call>>
  /\ UNCHANGED toolVars

\* generate_deployment_plan
OtherPlan ==
  /\ other.pc = "plan"
  /\ plans' = WritePlan(plans, other.app_name, other.version)
  /\ other' = [other EXCEPT !.pc = "return"]
  /\ plan_writes' = Written(plan_writes, PlanPath(other.app_name, other.version))
  /\ UNCHANGED <<storeVars, fs, archives, temp_dir, envVars, runVars, localVars,
                 histVars, produced, arch_writes, failed_op, call,
                 report, sync, metadata, noted>>

\* process_application returns in the second process
OtherReturn ==
  /\ other.pc = "return"
  /\ other' = NoOther
  /\ UNCHANGED <<storeVars, base, nchanged, OtherFrame>>
  /\ UNCHANGED toolVars

OtherStep ==
  \/ OtherStart
  \/ OtherSelect
  \/ OtherInsert
  \/ OtherAnalyze
  \/ OtherUpdateStatus
  \/ OtherPackage
  \/ OtherPlan
  \/ OtherReturn

(* ------------- change detection on every pair of fingerprints --------- *)

\* every tree an application directory can hold
Trees ==
  {t \in UNION {[D -> Contents \cup {DirMark}] : D \in SUBSET (FilePaths \cup DirPaths)} :
     \A p \in DOMAIN t :
       /\ (p \in DirPaths) <=> (t[p] = DirMark)
       /\ Parent(p) # "" => Parent(p) \in DOMAIN t}

\* the rows update_file_hashes stores for a mapping
ToRows(id, fp) ==
  {[app_id |-> id, file_path |-> p, file_hash |-> fp[p]] : p \in DOMAIN fp}

\* a run has packaged "foo" holding the tree t2 as version 1; the tree is t1 now
InitDetect ==
  \E t1 \in Trees, t2 \in Trees :
    /\ applications = {[id |-> 1, app_name |-> "foo", version |-> 1,
                        status |-> "packaged", last_updated |-> 0,
                        package_path |-> ArchivePath("foo", 1)]}
    /\ file_hashes = ToRows(1, Walk(DirEntry(t2)))
    /\ txn_hashes = file_hashes
    /\ fs = [n \in Names |-> IF n = "foo" THEN DirEntry(t1) ELSE NoEntry]
    /\ archives = (ArchivePath("foo", 1) :> TarOf(DirEntry(t2), "foo"))
    /\ plans = (PlanPath("foo", 1) :> PlanContent("foo", 1))
    /\ temp_dir = NoTemp
    /\ now = 0
    /\ edits = MaxEdits
    /\ pc = "idle"
    /\ queue = << >>
    /\ last_run = "completed"
    /\ app_name = ""
    /\ app_id = 0
    /\ version = 0
    /\ status = ""
    /\ has_changed = FALSE
    /\ current_hashes = EmptyMap
    /\ stored_hashes = EmptyMap
    /\ to_insert = {}
    /\ pre = NoPre
    /\ walked = NoEntry
    /\ status_trace = << >>
    /\ last = [n \in Names |-> IF n = "foo"
                 THEN [kind |-> "done", entry |-> DirEntry(t2), version |-> 1,
                       status |-> "packaged"]
                 ELSE NoLast]
    /\ base = [n \in Names |-> IF n = "foo" THEN 1 ELSE 0]
    /\ nchanged = [n \in Names |-> 0]
    /\ analyzed_fp = [n \in Names |-> IF n = "foo"
                        THEN [done |-> TRUE, fp |-> Walk(DirEntry(t2))]
                        ELSE NoAnalysis]
    /\ crash_pc = ""
    /\ produced = [n \in Names |-> IF n = "foo" THEN ArchivePath("foo", 1) ELSE Null]
    /\ arch_writes = (ArchivePath("foo", 1) :> 1)
    /\ failed_op = ""
    /\ other = NoOther
    /\ call = NoCall
    /\ plan_writes = (PlanPath("foo", 1) :> 1)
    /\ report = NoReport
    /\ sync = NoSync
    /\ metadata = EmptyMap
    /\ noted = NoNote

NextDetect ==
  \/ MainStart
  \/ MainFinish
  \/ MainEnter
  \/ GetOrCreateApp
  \/ AnalyzeApplication
  \/ UfhDelete
  \/ UfhInsert
  \/ UfhCommit
  \/ UpdateAppStatus
  \/ PkgCopytree
  \/ PkgTar
  \/ PkgUpdate
  \/ GenerateDeploymentPlan
  \/ Return

SpecDetect == InitDetect /\ [][NextDetect]_vars

(* ---------------- two processes over one application ------------------ *)

\* nothing has run yet; apps_directory holds the directory "foo" with the tree t
InitFresh ==
  \E t \in Trees :
    /\ applications = {}
    /\ file_hashes = {}
    /\ txn_hashes = {}
    /\ fs = [n \in Names |-> IF n = "foo" THEN DirEntry(t) ELSE NoEntry]
    /\ archives = EmptyMap
    /\ plans = EmptyMap
    /\ temp_dir = NoTemp
    /\ now = 0
    /\ edits = MaxEdits
    /\ pc = "idle"
    /\ queue = << >>
    /\ last_run = "none"
    /\ app_name = ""
    /\ app_id = 0
    /\ version = 0
    /\ status = ""
    /\ has_changed = FALSE
    /\ current_hashes = EmptyMap
    /\ stored_hashes = EmptyMap
    /\ to_insert = {}
    /\ pre = NoPre
    /\ walked = NoEntry
    /\ status_trace = << >>
    /\ last = [n \in Names |-> NoLast]
    /\ base = [n \in Names |-> 0]
    /\ nchanged = [n \in Names |-> 0]
    /\ analyzed_fp = [n \in Names |-> NoAnalysis]
    /\ crash_pc = ""
    /\ produced = [n \in Names |-> Null]
    /\ arch_writes = EmptyMap
    /\ failed_op = ""
    /\ other = NoOther
    /\ call = NoCall
    /\ plan_writes = EmptyMap
    /\ report = NoReport
    /\ sync = NoSync
    /\ metadata = EmptyMap
    /\ noted = NoNote

\* "foo" is new, or it is packaged and has changed or not
InitConc == InitFresh \/ InitDetect

NextConc == NextDetect \/ OtherStep

SpecConc == InitConc /\ [][NextConc]_vars

(* ------------------- update_app_status on any store ------------------- *)

\* the rows an application can have
RowsFor(id, name) ==
  {[id |-> id, app_name |-> name, version |-> v, status |-> st,
    last_updated |-> 0,
    package_path |-> IF hp THEN ArchivePath(name, v) ELSE Null] :
     v \in 1..2, st \in {"new", "analyzed", "packaged"}, hp \in BOOLEAN}

\* the store holds a row for "foo" and perhaps one for "bar"; nothing is running
InitStatus ==
  /\ \E r1 \in RowsFor(1, "foo") :
       \/ applications = {r1}
       \/ \E r2 \in RowsFor(2, "bar") : applications = {r1, r2}
  /\ file_hashes = {}
  /\ txn_hashes = {}
  /\ fs = [n \in Names |-> NoEntry]
  /\ archives = EmptyMap
  /\ plans = EmptyMap
  /\ temp_dir = NoTemp
  /\ now = 0
  /\ edits = 0
  /\ pc = "idle"
  /\ queue = << >>
  /\ last_run = "none"
  /\ app_name = ""
  /\ app_id = 0
  /\ version = 0
  /\ status = ""
  /\ has_changed = FALSE
  /\ current_hashes = EmptyMap
  /\ stored_hashes = EmptyMap
  /\ to_insert = {}
  /\ pre = NoPre
  /\ walked = NoEntry
  /\ status_trace = << >>
  /\ last = [n \in Names |-> NoLast]
  /\ base = [n \in Names |-> 0]
  /\ nchanged = [n \in Names |-> 0]
  /\ analyzed_fp = [n \in Names |-> NoAnalysis]
  /\ crash_pc = ""
  /\ produced = [n \in Names |-> Null]
  /\ arch_writes = EmptyMap
  /\ failed_op = ""
  /\ other = NoOther
  /\ call = NoCall
  /\ plan_writes = EmptyMap
  /\ report = NoReport
  /\ sync = NoSync
  /\ metadata = EmptyMap
  /\ noted = NoNote

\* update_app_status(app_id, status, db_path) or (..., version=v) is called:
\* version 0 stands for the omitted argument
CallUpdateAppStatus ==
  \E id \in 1..3, st \in {"analyzed", "packaged"}, v \in 0..MaxVersion :
    /\ applications' = update_app_status(id, st, v)
    /\ call' = [seq |-> 1 - call.seq, id |-> id, status |-> st, version |-> v]
    /\ UNCHANGED <<file_hashes, txn_hashes, diskVars, envVars, runVars, localVars,
                   histVars, produced, arch_writes, failed_op, other, toolVars>>

NextStatus == CallUpdateAppStatus \/ Tick

SpecStatus == InitStatus /\ [][NextStatus]_vars

(* ---------------- generate_deployment_plan on any input ---------------- *)

\* the store holds analyzed rows; no plan has been written
InitPlan ==
  /\ InitStatus
  /\ \A r \in applications : r.status = "analyzed" /\ r.package_path = Null

\* generate_deployment_plan(app_name, version, config) is called
CallGenerateDeploymentPlan ==
  \E n \in Names, v \in 1..MaxVersion :
    /\ (PlanPath(n, v) \in DOMAIN plan_writes
          => plan_writes[PlanPath(n, v)] < MaxPlanWrites)
    /\ plans' = WritePlan(plans, n, v)
    /\ plan_writes' = Written(plan_writes, PlanPath(n, v))
    /\ UNCHANGED <<storeVars, fs, archives, temp_dir, envVars, runVars, localVars,
                   histVars, auxVars, report, sync, metadata, noted>>

NextPlan == CallGenerateDeploymentPlan

SpecPlan == InitPlan /\ [][NextPlan]_vars

\* the elements of a sequence
Range(q) == {q[i] : i \in 1..Len(q)}

(* --------- scripts/sync_apps_to_db.py, scripts/analyze_discrepancies.py --------- *)

\* the rows a store holds for the names in S when the scripts are run
SyncRows(S) ==
  IF S = {} THEN {{}}
  ELSE IF S = Names
  THEN {{[id |-> 1, app_name |-> "foo", version |-> 1, status |-> s1,
          last_updated |-> 0, package_path |-> Null],
         [id |-> 2, app_name |-> "bar", version |-> 1, status |-> s2,
          last_updated |-> 0, package_path |-> Null]} :
          s1 \in {"new", "packaged"}, s2 \in {"new", "analyzed"}}
  ELSE {{[id |-> 1, app_name |-> n, version |-> 1, status |-> st,
          last_updated |-> 0, package_path |-> Null]} :
          n \in S, st \in {"new", "analyzed", "packaged"}}

\* the database exists with any rows; apps_dir exists and is empty
InitSync ==
  /\ \E S \in SUBSET Names : applications \in SyncRows(S)
  /\ fs = [n \in Names |-> NoEntry]
  /\ file_hashes = {}
  /\ txn_hashes = {}
  /\ archives = EmptyMap
  /\ plans = EmptyMap
  /\ temp_dir = NoTemp
  /\ now = 0
  /\ edits = 0
  /\ pc = "idle"
  /\ queue = << >>
  /\ last_run = "none"
  /\ app_name = ""
  /\ app_id = 0
  /\ version = 0
  /\ status = ""
  /\ has_changed = FALSE
  /\ current_hashes = EmptyMap
  /\ stored_hashes = EmptyMap
  /\ to_insert = {}
  /\ pre = NoPre
  /\ walked = NoEntry
  /\ status_trace = << >>
  /\ last = [n \in Names |-> NoLast]
  /\ base = [n \in Names |-> 0]
  /\ nchanged = [n \in Names |-> 0]
  /\ analyzed_fp = [n \in Names |-> NoAnalysis]
  /\ crash_pc = ""
  /\ produced = [n \in Names |-> Null]
  /\ arch_writes = EmptyMap
  /\ failed_op = ""
  /\ other = NoOther
  /\ call = NoCall
  /\ plan_writes = EmptyMap
  /\ report = NoReport
  /\ sync = NoSync
  /\ metadata = EmptyMap
  /\ noted = NoNote

\* [d for d in os.listdir(apps_dir) if os.path.isdir(os.path.join(apps_dir, d))]
AppDirs == {n \in Names : fs[n].kind = "dir"}

\* os.listdir returns the entries in arbitrary order
Listings(S) == {q \in [1..Cardinality(S) -> S] : Range(q) = S}

\* {row[0] for row in cursor.fetchall()} of SELECT app_name FROM applications
Registered(rows) == {r.app_name : r \in rows}

\* faulty variant: the loop stops after the first unregistered directory
ToRegister_head(listing, registered) ==
  LET new(n) == n \notin registered
      q == SelectSeq(listing, new)
  IN IF q = << >> THEN q ELSE <<Head(q)>>

\* the directories of the listing the loop of sync_apps_with_db inserts
ToRegister(listing, registered) ==
  LET new(n) == n \notin registered
  IN SelectSeq(listing, new)

\* the row INSERT INTO applications (app_name) VALUES (?) adds to rows
InsertedRow(rows, name) ==
  [id |-> IF rows = {} THEN 1
          ELSE 1 + (CHOOSE m \in {r.id : r \in rows} : \A r \in rows : r.id <= m),
   app_name |-> name, version |-> 1, status |-> "new",
   last_updated |-> now, package_path |-> Null]

\* the for loop of sync_apps_with_db: an INSERT of a name that has a row raises
\* sqlite3.IntegrityError, which is caught and the name is not reported
RECURSIVE SyncLoop(_, _, _)
SyncLoop(names, rows, added) ==
  IF names = << >> THEN [rows |-> rows, added |-> added]
  ELSE IF Head(names) \in Registered(rows)
  THEN SyncLoop(Tail(names), rows, added)
  ELSE SyncLoop(Tail(names), rows \cup {InsertedRow(rows, Head(names))},
                Append(added, Head(names)))

\* sync_apps_with_db(apps_dir, db_path), apps_dir a directory and db_path a file
SyncAppsWithDb ==
  /\ sync.seq < MaxToolRuns
  /\ \E listing \in Listings(AppDirs) :
       LET res == SyncLoop(ToRegister(listing, Registered(applications)),
                           applications, << >>)
       IN /\ applications' = res.rows
          /\ sync' = [seq |-> sync.seq + 1, added |-> Range(res.added),
                      dirs |-> AppDirs]
  /\ UNCHANGED <<file_hashes, txn_hashes, diskVars, envVars, runVars, localVars,
                 histVars, auxVars, plan_writes, report, metadata, noted>>

\* the directories analyze_app_db_discrepancies reports as not registered
Discrepancies(app_dirs, registered) == {n \in app_dirs : n \notin registered}

\* analyze_app_db_discrepancies(apps_dir, db_path), apps_dir a directory and
\* db_path a file
AnalyzeAppDbDiscrepancies ==
  /\ report.seq < MaxToolRuns
  /\ report' = [seq |-> report.seq + 1,
                missing |-> Discrepancies(AppDirs, Registered(applications)),
                after |-> sync.seq]
  /\ UNCHANGED <<storeVars, diskVars, envVars, runVars, localVars,
                 histVars, auxVars, plan_writes, sync, metadata, noted>>

NextSync == SyncAppsWithDb \/ AnalyzeAppDbDiscrepancies \/ FsEdit

SpecSync == InitSync /\ [][NextSync]_vars

(* ------------------- rep_manager.py: set-status, note ------------------- *)

\* the app_id and text arguments of the commands
AppIds == {"app1", "app2"}
NoteTexts == {"Ready for QA.", "say \"hi\""}
Statuses == {"dev", "qa"}

\* the JSON text is a sequence of tokens
Tok(t, v) == [t |-> t, v |-> v]

\* json.dumps of a string: quotes and backslashes are escaped
Escape(str) == IF str = "say \"hi\"" THEN "say \\\"hi\\\"" ELSE str

\* json.loads of a string literal
Unescape(lit) == IF lit = "say \\\"hi\\\"" THEN "say \"hi\"" ELSE lit

\* the tokens of the elements of a list, separated by ", "
RECURSIVE Items(_)
Items(l) ==
  IF l = << >> THEN << >>
  ELSE IF Len(l) = 1 THEN <<Tok("str", Escape(l[1]))>>
  ELSE <<Tok("str", Escape(Head(l))), Tok(",", "")>> \o Items(Tail(l))

\* json.dumps(notes) of a list of strings
json_dumps(l) == <<Tok("[", "")>> \o Items(l) \o <<Tok("]", "")>>

\* json.loads(current_notes_json) of the text of a list of strings
json_loads(text) ==
  LET isStr(k) == k.t = "str"
      lits == SelectSeq(text, isStr)
  IN [i \in 1..Len(lits) |-> Unescape(lits[i].v)]

\* INSERT OR IGNORE INTO applications (id) VALUES (?)
InsertOrIgnore(m, id) ==
  IF id \in DOMAIN m THEN m ELSE (id :> [status |-> "new", notes |-> Null]) @@ m

\* faulty variant: the stored notes are not read back
AppendNote_replace(notes_json, text) == json_dumps(<<text>>)

\* handle_note: the new value of the notes column
AppendNote(notes_json, text) ==
  json_dumps(Append(json_loads(IF notes_json # Null THEN notes_json
                               ELSE json_dumps(<< >>)),
                    text))

\* handle_status: notes = json.loads(notes_json) if notes_json else []
NotesOf(m, id) ==
  IF id \in DOMAIN m /\ m[id].notes # Null THEN json_loads(m[id].notes) ELSE << >>

\* init_db() has created metadata.db; no command has been run
InitNote ==
  /\ applications = {}
  /\ file_hashes = {}
  /\ txn_hashes = {}
  /\ fs = [n \in Names |-> NoEntry]
  /\ archives = EmptyMap
  /\ plans = EmptyMap
  /\ temp_dir = NoTemp
  /\ now = 0
  /\ edits = 0
  /\ pc = "idle"
  /\ queue = << >>
  /\ last_run = "none"
  /\ app_name = ""
  /\ app_id = 0
  /\ version = 0
  /\ status = ""
  /\ has_changed = FALSE
  /\ current_hashes = EmptyMap
  /\ stored_hashes = EmptyMap
  /\ to_insert = {}
  /\ pre = NoPre
  /\ walked = NoEntry
  /\ status_trace = << >>
  /\ last = [n \in Names |-> NoLast]
  /\ base = [n \in Names |-> 0]
  /\ nchanged = [n \in Names |-> 0]
  /\ analyzed_fp = [n \in Names |-> NoAnalysis]
  /\ crash_pc = ""
  /\ produced = [n \in Names |-> Null]
  /\ arch_writes = EmptyMap
  /\ failed_op = ""
  /\ other = NoOther
  /\ call = NoCall
  /\ plan_writes = EmptyMap
  /\ report = NoReport
  /\ sync = NoSync
  /\ metadata = EmptyMap
  /\ noted = NoNote

\* rep_manager.py set-status <app_id> <status>
HandleSetStatus ==
  \E id \in AppIds, st \in Statuses :
    /\ metadata' = [InsertOrIgnore(metadata, id) EXCEPT ![id].status = st]
    /\ UNCHANGED <<storeVars, diskVars, envVars, runVars, localVars,
                   histVars, auxVars, plan_writes, report, sync, noted>>

\* rep_manager.py note <app_id> <text>
HandleNote ==
  \E id \in AppIds, text \in NoteTexts :
    /\ Len(NotesOf(metadata, id)) < MaxNotes
    /\ metadata' = [InsertOrIgnore(metadata, id) EXCEPT
                      ![id].notes = AppendNote(InsertOrIgnore(metadata, id)[id].notes,
                                               text)]
    /\ noted' = [seq |-> 1 - noted.seq, id |-> id, text |-> text]
    /\ UNCHANGED <<storeVars, diskVars, envVars, runVars, localVars,
                   histVars, auxVars, plan_writes, report, sync>>

NextNote == HandleSetStatus \/ HandleNote

SpecNote == InitNote /\ [][NextNote]_vars

(* ------------------------------ properties ---------------------------- *)

\* process_application is about to return normally: every effect of the pass is made
Returning == pc = "return"
Row == RowById(app_id)
PreRow == CHOOSE r \in pre.applications : r.id = app_id

\* C1: when a pass over an application returns and the pass before it over the
\* same application also returned and analysed the same tree (no filesystem change
\* between the two analyses), the version and the status are what the earlier
\* pass left.
C1_Idempotent ==
  (Returning /\ last[app_name].kind = "done" /\ walked = last[app_name].entry)
    => /\ Row.version = last[app_name].version
       /\ Row.status = last[app_name].status

\* a second pass over an unchanged tree with files is returning
C1_Witness ==
  /\ Returning
  /\ last[app_name].kind = "done"
  /\ walked = last[app_name].entry
  /\ DOMAIN Walk(walked) # {}
  /\ last[app_name].status = "packaged"

\* C2: once an application has been packaged for the first time, its stored
\* version is the version of that first packaging plus the number of later passes
\* whose analysis detected a change, in every state except between such a
\* detection and the version write of the same pass.
C2_VersionCount ==
  \A r \in applications :
    (base[r.app_name] # 0 /\ ~(pc = "update_status" /\ app_name = r.app_name))
      => r.version = base[r.app_name] + nchanged[r.app_name]

\* two changes were detected after the first packaging and the run is over
C2_Witness ==
  /\ pc = "idle"
  /\ \E r \in applications :
       base[r.app_name] = 1 /\ nchanged[r.app_name] = 2 /\ r.version = 3

VersionOk == \A r \in applications : r.version \in Nat /\ r.version >= 1
VersionStep ==
  \A r \in applications : \A r2 \in applications' :
    r2.id = r.id => r2.version \in {r.version, r.version + 1}

\* C3: the version of every row is an integer >= 1 in every state, and every step
\* leaves it as it is or increases it by exactly 1.
C3_VersionMonotone == []VersionOk /\ [][VersionStep]_vars

\* a version has been incremented
C3_Witness == \E r \in applications : r.version = 2 /\ r.status = "packaged"

StatusOk == \A r \in applications : r.status \in {"new", "analyzed", "packaged"}
StatusStep ==
  \A r2 \in applications' :
    IF \E r \in applications : r.id = r2.id
    THEN LET r == CHOOSE x \in applications : x.id = r2.id
         IN \/ r2.status = r.status
            \/ <<r.status, r2.status>> \in
                 {<<"new", "analyzed">>, <<"analyzed", "packaged">>,
                  <<"packaged", "analyzed">>}
    ELSE r2.status = "new"

\* C4: a status is always new, analyzed or packaged; a row is created in status
\* new; a step changes a status only from new to analyzed, from analyzed to
\* packaged or from packaged to analyzed (so new is never entered again).
C4_Lifecycle == []StatusOk /\ [][StatusStep]_vars

\* a packaged application is back in status analyzed
C4_Witness ==
  \E r \in applications : r.status = "analyzed" /\ r.package_path # Null

\* C5: when the pass that found the application in status new returns, the row
\* has gone new, analyzed, packaged in that order, its version is 1, and the
\* archive and the plan file of version 1 exist.
C5_FirstPass ==
  (Returning /\ status = "new")
    => /\ status_trace = <<"new", "analyzed", "packaged">>
       /\ Row.version = 1
       /\ Row.status = "packaged"
       /\ ArchivePath(app_name, 1) \in DOMAIN archives
       /\ PlanPath(app_name, 1) \in DOMAIN plans

\* the first pass over a directory without files is returning
C5_Witness == Returning /\ status = "new" /\ walked = EmptyDir

\* C6: when a pass over an application that was not in status new returns and its
\* analysis reported no change, the applications table (so the row's version,
\* status, package_path and last_updated), the file_hashes table, the archives and
\* the plan files are what they were when the pass began.
C6_UnchangedPass ==
  (Returning /\ status # "new" /\ ~has_changed)
    => /\ applications = pre.applications
       /\ file_hashes = pre.file_hashes
       /\ archives = pre.archives
       /\ plans = pre.plans

\* an unchanged pass over a packaged application is returning, the clock has moved on
C6_Witness ==
  /\ Returning
  /\ status = "packaged"
  /\ ~has_changed
  /\ now > Row.last_updated
  /\ DOMAIN archives # {}

\* C7: when a pass over an application at version v that was not in status new
\* returns and its analysis detected a change, the row has version v+1 and status
\* packaged, the archive of version v+1 has been created, and every archive that
\* existed when the pass began is unmodified.
C7_ChangedPass ==
  (Returning /\ status # "new" /\ has_changed)
    => /\ Row.version = PreRow.version + 1
       /\ Row.status = "packaged"
       /\ ArchivePath(app_name, PreRow.version + 1) \in DOMAIN archives
       /\ ArchivePath(app_name, PreRow.version + 1) \notin DOMAIN pre.archives
       /\ \A k \in DOMAIN pre.archives :
            k \in DOMAIN archives /\ archives[k] = pre.archives[k]

\* a changed pass over a packaged application with an archive is returning
C7_Witness ==
  /\ Returning
  /\ status = "packaged"
  /\ has_changed
  /\ ArchivePath(app_name, 1) \in DOMAIN pre.archives
  /\ Row.version = 2

\* analyze_application has compared and is going to return True
DetectedChange == pc \in InUpdateFileHashes
\* analyze_application has returned has_changed
AnalysisReturned ==
  pc \in {"update_status", "copytree", "tar", "pkg_update", "plan", "return"}

\* C8: analyze_application returns False exactly when the current and the stored
\* fingerprint are equal as mappings; a path added, a path removed or a digest
\* changed makes it return True.
C8_Detect ==
  /\ DetectedChange => current_hashes # stored_hashes
  /\ AnalysisReturned =>
       /\ has_changed <=> (current_hashes # stored_hashes)
       /\ DOMAIN current_hashes # DOMAIN stored_hashes => has_changed
       /\ (\E k \in DOMAIN current_hashes \cap DOMAIN stored_hashes :
             current_hashes[k] # stored_hashes[k]) => has_changed

\* a path was removed and nothing else differs: True was returned
C8_Witness ==
  /\ AnalysisReturned
  /\ has_changed
  /\ DOMAIN current_hashes # DOMAIN stored_hashes
  /\ DOMAIN current_hashes \subseteq DOMAIN stored_hashes
  /\ \A k \in DOMAIN current_hashes : current_hashes[k] = stored_hashes[k]

\* C9: for every application that has been analysed, the committed file_hashes
\* rows are exactly the mapping the last finished analysis computed, one row per
\* path, in every state: also after the filesystem has changed.
C9_LastAnalyzed ==
  \A r \in applications :
    analyzed_fp[r.app_name].done
      => /\ RowsOf(file_hashes, r.id) = ToRows(r.id, analyzed_fp[r.app_name].fp)
         /\ Cardinality(RowsOf(file_hashes, r.id))
              = Cardinality(DOMAIN analyzed_fp[r.app_name].fp)

\* no run is going on and the tree differs from the stored, non-empty fingerprint
C9_Witness ==
  /\ pc = "idle"
  /\ \E r \in applications :
       /\ analyzed_fp[r.app_name].done
       /\ RowsOf(file_hashes, r.id) # {}
       /\ fs[r.app_name].kind = "dir"
       /\ Walk(fs[r.app_name]) # analyzed_fp[r.app_name].fp

HashesStep ==
  \A r \in applications :
    \/ RowsOf(file_hashes', r.id) = RowsOf(file_hashes, r.id)
    \/ /\ pc = "ufh_insert"
       /\ to_insert = {}
       /\ r.id = app_id
       /\ RowsOf(file_hashes', r.id) = ToRows(r.id, current_hashes)

\* C10: every step, a kill inside update_file_hashes included, leaves the
\* committed fingerprint rows of an application as they were or replaces them by
\* the complete new mapping at the commit.
C10_AtomicReplace == [][HashesStep]_vars

\* the process was killed after the DELETE and the old rows are still there
C10_Witness ==
  /\ crash_pc = "ufh_insert"
  /\ last_run = "crashed"
  /\ Cardinality(applications) = 1
  /\ file_hashes # {}

\* the package_application call that is running has written its archive and has
\* not committed its UPDATE for the row r
Uncommitted(r) == pc = "pkg_update" /\ app_id = r.id

C12_LastUpdated ==
  [][\A r \in applications : \A r2 \in applications' :
       (r2.id = r.id /\ (r2.status # r.status \/ r2.version # r.version))
         => r2.last_updated = now']_vars

\* an operation of the running pass raises in this step
Raises == failed_op = "" /\ failed_op' # ""

\* C13: when processing one application fails, the for loop of main() goes on
\* with every entry it has not visited yet.
C13_Isolation ==
  [][(Raises /\ queue # << >>) => (pc' = "loop" /\ queue' = queue)]_vars

\* analyze_application has walked source_dir and found no directory there
MissingSource ==
  /\ (DetectedChange \/ AnalysisReturned)
  /\ walked.kind # "dir"

\* C14: a pass that finds its source directory missing leaves the version, status
\* and package_path of the rows and the stored fingerprint as they were when it
\* began, and its failure does not end the run for the entries not yet visited.
C14_MissingSource ==
  /\ [](MissingSource =>
          /\ file_hashes = pre.file_hashes
          /\ Row.status = status
          /\ \A r \in pre.applications :
               r.id = app_id => (Row.version = r.version
                                 /\ Row.package_path = r.package_path))
  /\ [][(MissingSource /\ Raises /\ queue # << >>)
          => (pc' = "loop" /\ queue' = queue)]_vars

\* C15: outside the with block of package_application no staging directory
\* exists, whether the block was left normally or by an exception of copytree
\* or of tarfile.
C15_StagingCleanup == temp_dir # NoTemp => pc = "tar"

\* archive creation has failed and the run has ended
C15_Witness ==
  /\ failed_op = "tar"
  /\ last_run = "aborted"
  /\ temp_dir = NoTemp

\* the top-level names of the members of the archive a
TopLevel(a) == {m.top : m \in DOMAIN a.members}

\* the tree that extracting the archive a puts below the directory top
Extract(a, top) ==
  [p \in {m.path : m \in {x \in DOMAIN a.members : x.top = top /\ x.path # ""}} |->
     a.members[[top |-> top, path |-> p]]]

\* the archive of the running package_application call
Archive(arch) == arch[ArchivePath(app_name, version)]

\* C16: staging receives the source tree as it is when copied and is not touched
\* by later changes of the source; the archive written has the single top-level
\* directory app_name, and extracting it gives the staged tree.
C16_ArchiveIsStaged ==
  [][/\ (pc = "copytree" /\ pc' = "tar") => temp_dir'.tree = fs[app_name].tree
     /\ (pc = "tar" /\ pc' = "tar") => temp_dir' = temp_dir
     /\ (pc = "tar" /\ pc' = "pkg_update") =>
          /\ Archive(archives').ok
          /\ TopLevel(Archive(archives')) = {app_name}
          /\ Extract(Archive(archives'), app_name) = temp_dir.tree]_vars

\* an archive has been written whose tree is not empty and is not the tree the
\* live source has now
C16_Witness ==
  /\ pc = "pkg_update"
  /\ fs[app_name].kind = "dir"
  /\ Archive(archives).ok
  /\ DOMAIN Extract(Archive(archives), app_name) # {}
  /\ Extract(Archive(archives), app_name) # fs[app_name].tree

\* C17: once a store operation of a pass has failed, no staging directory, archive
\* or deployment plan is written until the next run of main() begins.
C17_NoPackagingAfterFailure ==
  [][failed_op' \in StoreOps =>
       (temp_dir' = temp_dir /\ archives' = archives /\ plans' = plans)]_vars

\* update_file_hashes has failed in a pass over a packaged application
C17_Witness ==
  /\ failed_op \in InUpdateFileHashes
  /\ last_run = "aborted"
  /\ \E r \in applications : r.status = "packaged"

\* C18: of two calls of get_or_create_app for the same new name whose SELECT and
\* INSERT interleave neither fails, and the name has exactly one row, which both
\* return.
C18_AtomicGetOrCreate ==
  /\ other.failed # "get_or_create"
  /\ \A n \in Names : Cardinality({r \in applications : r.app_name = n}) <= 1
  /\ (other.pc = "analyze" /\ other.status = "new")
       => (HasRow(other.app_name) /\ RowOf(other.app_name).id = other.app_id)

\* no pass is running and none has failed
Quiet ==
  /\ pc = "idle"
  /\ last_run = "completed"
  /\ other.pc = "idle"
  /\ other.failed = ""

\* C19: when the passes of two processes over an application have interleaved
\* and returned, its version is the version it was first packaged at plus the
\* number of passes that detected a change since, and no archive has been
\* written twice.
C19_NoLostBump ==
  Quiet =>
    /\ \A n \in Names :
         (base[n] # 0 /\ HasRow(n)) => RowOf(n).version = base[n] + nchanged[n]
    /\ \A k \in DOMAIN arch_writes : arch_writes[k] <= 1

\* update_app_status is called in this step
Called == call'.seq # call.seq

\* C20: update_app_status sets status and last_updated of the addressed row, sets
\* its version only when one is given, leaves its name and package_path, and
\* leaves every other row as it is.
C20_StatusFrame ==
  [][Called =>
       /\ Cardinality(applications') = Cardinality(applications)
       /\ \A r \in applications :
            IF r.id # call'.id THEN r \in applications'
            ELSE \E r2 \in applications' :
                   /\ r2.id = r.id
                   /\ r2.app_name = r.app_name
                   /\ r2.package_path = r.package_path
                   /\ r2.status = call'.status
                   /\ r2.last_updated = now
                   /\ r2.version = IF call'.version = 0 THEN r.version
                                   ELSE call'.version]_vars

\* a call without version has rewritten a packaged row of version 2 at time 1,
\* next to another row
C20_Witness ==
  /\ call.seq = 1
  /\ call.version = 0
  /\ Cardinality(applications) = 2
  /\ \E r \in applications :
       /\ r.id = call.id
       /\ r.status = call.status
       /\ r.version = 2
       /\ r.package_path # Null
       /\ r.last_updated = 1

\* C21: a row of table applications is in every later state, with the same id
\* and app_name, whatever runs follow and whether or not its directory exists.
C21_NeverDeleted ==
  [][\A r \in applications :
       \E r2 \in applications' : r2.id = r.id /\ r2.app_name = r.app_name]_vars

\* a later run is processing "foo" again while "bar" has a row and no directory
C21_Witness ==
  /\ pc = "analyze"
  /\ app_name = "foo"
  /\ last["foo"].kind = "done"
  /\ HasRow("bar")
  /\ fs["bar"].kind = "none"

\* apps_directory holds no subdirectory
NoSubdir == \A n \in Names : fs[n].kind # "dir"

\* C22: as long as apps_directory holds no subdirectory, a run of main() that
\* begins or goes on processes no application, writes no archive and no plan,
\* and leaves the rows of applications and file_hashes as they are.
C22_EmptyDirectory ==
  [][(pc \in {"idle", "loop"} /\ NoSubdir /\ NoSubdir')
       => /\ pc' \in {"idle", "loop"}
          /\ applications' = applications
          /\ file_hashes' = file_hashes
          /\ archives' = archives
          /\ plans' = plans]_vars

\* a run has completed, a plain file lies in apps_directory, and nothing was
\* ever registered
C22_Witness ==
  /\ pc = "idle"
  /\ last_run = "completed"
  /\ NoSubdir
  /\ \E n \in Names : fs[n].kind = "file"
  /\ applications = {}
  /\ DOMAIN archives = {}
  /\ DOMAIN plans = {}

\* C23: a plan file named for (app_name, version) holds the text templated from
\* that pair and nothing else; writing it again leaves it identical, leaves the
\* other plan files, and changes no row of the store.
C23_PlanIdempotent ==
  /\ [](\A k \in DOMAIN plans :
          k = PlanPath(k[1], k[3]) /\ plans[k] = PlanContent(k[1], k[3]))
  /\ [][plan_writes' # plan_writes =>
          /\ applications' = applications
          /\ file_hashes' = file_hashes
          /\ \A k \in DOMAIN plans : k \in DOMAIN plans' /\ plans'[k] = plans[k]]_vars

\* one plan has been written twice next to another one, with rows in the store
C23_Witness ==
  /\ applications # {}
  /\ \E k \in DOMAIN plan_writes : plan_writes[k] = 2
  /\ Cardinality(DOMAIN plans) >= 2

\* the names in the sequence q, and q being in strictly ascending sorted order
Ascending(q) == \A i \in 1..Len(q), j \in 1..Len(q) :
                  i < j => NameRank(q[i]) < NameRank(q[j])

\* what a step of the for loop of main() does with the entry it has reached
DiscoveryStep ==
  /\ (pc = "loop" /\ pc' = "get_or_create")
       => (queue # << >> /\ app_name' = Head(queue) /\ queue' = Tail(queue)
           /\ fs[app_name'].kind = "dir")
  /\ (pc = "loop" /\ pc' = "loop" /\ queue' # queue)
       => (queue' = Tail(queue) /\ fs[Head(queue)].kind # "dir")
  /\ (pc # "idle" /\ pc' = "idle")
       => \A n \in Range(queue) : fs[n].kind # "dir"

\* C24: a run of main() reaches the entries of apps_directory in sorted order,
\* each once; it calls process_application for the entry it has reached exactly
\* when that entry is a directory, and it does not end while a listed
\* subdirectory has not been reached.
C24_Discovery ==
  /\ [](/\ Ascending(queue)
         /\ app_name # "" => \A n \in Range(queue) : NameRank(app_name) < NameRank(n))
  /\ [][DiscoveryStep]_vars

\* C25: the mapping analyze_application computes has as keys the paths of the
\* regular files of the walked tree at any depth, relative to the root, no key
\* for a directory or for the root, and as values the digests of the contents.
C25_Coverage ==
  ((DetectedChange \/ AnalysisReturned) /\ walked.kind = "dir")
    => /\ DOMAIN current_hashes = DOMAIN walked.tree \cap FilePaths
       /\ DOMAIN current_hashes \cap (DirPaths \cup {""}) = {}
       /\ \A p \in DOMAIN current_hashes :
            /\ walked.tree[p] \in Contents
            /\ current_hashes[p] = calculate_file_hash(walked.tree[p])

\* a tree with a file below the root and a different file in a subdirectory
\* has been analysed
C25_Witness ==
  /\ AnalysisReturned
  /\ walked.kind = "dir"
  /\ DOMAIN walked.tree = {"a.txt", "sub", "sub/b.txt"}
  /\ DOMAIN current_hashes = {"a.txt", "sub/b.txt"}
  /\ current_hashes["a.txt"] # current_hashes["sub/b.txt"]

\* the archive the running pass is about, and whether it is a complete tar.gz
PassArchive == ArchivePath(app_name, version)
Complete(arch, k) == k \in DOMAIN arch /\ arch[k].ok

\* what a step of a packaging pass finds done when it writes
OrderingStep ==
  /\ (arch_writes' # arch_writes)
       => (/\ Row.status = "analyzed"
           /\ Row.version = version
           /\ Row.package_path # PassArchive
           /\ arch_writes' = Written(arch_writes, PassArchive)
           /\ applications' = applications
           /\ plans' = plans)
  /\ (\E r \in applications : \E r2 \in applications' :
         r2.id = r.id /\ r2.package_path # r.package_path)
       => (/\ Complete(archives, PassArchive)
           /\ Row'.package_path = PassArchive
           /\ Row'.status = "packaged"
           /\ PlanPath(app_name, version) \notin DOMAIN plans
           /\ archives' = archives
           /\ plans' = plans)
  /\ (plan_writes' # plan_writes)
       => (/\ Row.status = "packaged"
           /\ Row.version = version
           /\ Row.package_path = PassArchive
           /\ Complete(archives, PassArchive)
           /\ plan_writes' = Written(plan_writes, PlanPath(app_name, version))
           /\ applications' = applications
           /\ archives' = archives
           /\ pc' = "return")

\* C26: in a packaging pass the status 'analyzed' and the version are stored
\* before the archive is written, package_path and status 'packaged' are stored
\* after the archive is complete, and the plan is written last; so a plan file
\* for (app_name, v) never exists without the archive app_name_v<v>.tar.gz.
C26_Ordering ==
  /\ [](\A k \in DOMAIN plans : ArchivePath(k[1], k[3]) \in DOMAIN archives)
  /\ [][OrderingStep]_vars

\* a pass has written the archive, the row and the plan of version 2
C26_Witness ==
  /\ Returning
  /\ version = 2
  /\ PlanPath(app_name, 2) \in DOMAIN plans
  /\ Complete(archives, ArchivePath(app_name, 2))
  /\ Row.status = "packaged"
  /\ status_trace = <<"packaged", "analyzed", "packaged">>

\* C27: a pass that finds the row left 'analyzed' by a pass that failed before
\* package_application completed, and the tree as that pass fingerprinted it,
\* returns with the archive of the stored version written and the status
\* 'packaged'.
C27_EventuallyPackaged ==
  (Returning /\ status = "analyzed" /\ ~has_changed)
    => /\ Row.status = "packaged"
       /\ Complete(archives, ArchivePath(app_name, Row.version))

\* the fingerprint analyze_application would compute for the tree in the archive
\* at the package_path of the row r
ArchivedFingerprint(r) ==
  Walk(DirEntry(Extract(archives[r.package_path], r.app_name)))

\* C28: between passes, every application with status 'packaged' has as stored
\* fingerprint the fingerprint of the tree in the archive at its package_path.
C28_FingerprintIsArchive ==
  (pc \in {"idle", "loop"})
    => \A r \in applications :
         r.status = "packaged"
           => /\ r.package_path \in DOMAIN archives
              /\ get_file_hashes(file_hashes, r.id) = ArchivedFingerprint(r)

\* the rows a step adds to the store
Inserted == applications' \ applications

\* what a run of sync_apps_with_db does
SyncStep ==
  (sync'.seq # sync.seq)
    => /\ sync'.added = AppDirs \ Registered(applications)
       /\ applications \subseteq applications'
       /\ Registered(Inserted) = sync'.added
       /\ Cardinality(Inserted) = Cardinality(sync'.added)
       /\ \A r \in Inserted : r.status = "new" /\ r.id \notin {x.id : x \in applications}
       /\ AppDirs \subseteq Registered(applications')
       /\ (sync.seq > 0 /\ sync.dirs = AppDirs)
            => (applications' = applications /\ sync'.added = {})

\* what a run of analyze_app_db_discrepancies reports
ReportStep ==
  (report'.seq # report.seq)
    => /\ report'.missing = AppDirs \ Registered(applications)
       /\ applications' = applications
       /\ (sync.seq > 0 /\ sync.dirs = AppDirs) => report'.missing = {}

\* C29: sync_apps_with_db inserts a row for exactly the application directories
\* without one and changes no existing row; afterwards every application
\* directory has a row, so while the directories are the ones it listed
\* analyze_app_db_discrepancies reports none and another sync inserts nothing.
C29_SyncRegisters ==
  /\ [][SyncStep]_vars
  /\ [][ReportStep]_vars

\* with "foo" packaged in the store, a sync has registered the directory "bar",
\* and the report made after it over both directories is empty
C29_Witness ==
  /\ sync.seq = 1
  /\ sync.added = {"bar"}
  /\ sync.dirs = Names
  /\ AppDirs = Names
  /\ report.after = 1
  /\ report.missing = {}
  /\ HasRow("foo") /\ RowOf("foo").status = "packaged"
  /\ HasRow("bar") /\ RowOf("bar").status = "new"

\* what a run of the note command changes
NoteStep ==
  (noted'.seq # noted.seq)
    => /\ DOMAIN metadata' = DOMAIN metadata \cup {noted'.id}
       /\ metadata'[noted'.id].status =
            (IF noted'.id \in DOMAIN metadata THEN metadata[noted'.id].status
             ELSE "new")
       /\ NotesOf(metadata', noted'.id)
            = Append(NotesOf(metadata, noted'.id), noted'.text)
       /\ \A id \in DOMAIN metadata \ {noted'.id} : metadata'[id] = metadata[id]

\* C30: the note command creates the application's row with status 'new' when
\* there is none, makes the note the last element of the application's notes
\* after the notes stored before, in their order, keeps the application's
\* status, and changes no other row.
C30_NoteAppends == [][NoteStep]_vars

\* a second note has been added to an application whose status was set, while
\* another application has a row
C30_Witness ==
  /\ noted.id = "app1"
  /\ noted.text = "say \"hi\""
  /\ DOMAIN metadata = AppIds
  /\ metadata["app1"].status = "qa"
  /\ NotesOf(metadata, "app1") = <<"Ready for QA.", "say \"hi\"">>
  /\ NotesOf(metadata, "app2") = <<"say \"hi\"">>

====
